---- MODULE Spec2Model ----
(***************************************************************************)
(* A model of the two request shims of the repository:                     *)
(*                                                                         *)
(*  - vector-memory/chroma_bridge.py: one process per invocation.  main()  *)
(*    reads argv and stdin, then add/search/delete/list_entries open a     *)
(*    chromadb client on ./chroma-data (duckdb+parquet), get or create the *)
(*    collection, make one collection call and print its result.  With the *)
(*    duckdb+parquet setting the client keeps the whole database in the    *)
(*    process's memory: it reads the persist directory when it is built    *)
(*    and writes it back when the client is finalised at interpreter exit; *)
(*    the bridge itself never calls persist() and takes no lock.  Several  *)
(*    invocations may run at once (the caller spawns one child per call).  *)
(*                                                                         *)
(*  - config/youtube_transcript_server.py: the GET /transcript handler.    *)
(***************************************************************************)
EXTENDS Integers, Sequences, FiniteSets, TLC

\* ------------------------------------------------------------------ bounds
\* invocations of the bridge started in a run
MaxInvocations == 2
\* rows a collection may hold once an id is stored twice
MaxRows == 2
\* segments of a transcript
MaxSegments == 3
\* requests the transcript server serves in a run
MaxRequests == 3

\* default top_k of a search without a third argument
DefaultTopK == 5

\* ----------------------------------------------------------------- domains
Procs == {1, 2}
Names == {"notes", "docs"}
Ids == {"a", "b"}
\* the (embedding, metadata) pairs an add payload draws from
Payloads == {<<<<0>>, "m1">>, <<<<1>>, "m2">>, <<<<0, 1>>, "m1">>}
Queries == {<<0>>, <<0, 1>>}
\* the texts given as a search's third argument, and what int() makes of them
TopKTexts == {"0", "1"}
IntOf(t) == CASE t = "0" -> 0 [] t = "1" -> 1 [] OTHER -> -1
IsIntText(t) == t \in TopKTexts

Rec(i, e, m) == [id |-> i, emb |-> e, meta |-> m]
InputRecords == {Rec(i, pl[1], pl[2]) : i \in Ids, pl \in Payloads}

\* the batches an add payload carries: one record, or two with distinct ids
Batches ==
    {<<r>> : r \in InputRecords}
        \cup {<<r, s>> : r \in {x \in InputRecords : x.id = "a"},
                        s \in {x \in InputRecords : x.id = "b"}}

Range(s) == {s[i] : i \in 1..Len(s)}
IdsOf(rows) == [i \in 1..Len(rows) |-> rows[i].id]
EmbsOf(rows) == [i \in 1..Len(rows) |-> rows[i].emb]
MetasOf(rows) == [i \in 1..Len(rows) |-> rows[i].meta]
Min(a, b) == IF a < b THEN a ELSE b

\* ------------------------------------------------------- the store (a DB)
\* A database: for every collection name, whether the collection exists and
\* its rows in insertion order.
NoColl == [exists |-> FALSE, rows |-> <<>>]
EmptyDB == [c \in Names |-> NoColl]

\* client.get_or_create_collection(name)
GetOrCreate(db, c) == [db EXCEPT ![c].exists = TRUE]

\* ------------------------------------------------------------ stdin / argv
\* stdin is either not JSON at all, or a JSON object: a function from its
\* keys to their values.
Garbage == [notjson |-> TRUE]
IsJson(d) == "notjson" \notin DOMAIN d
AddPayload(b) ==
    [ids |-> IdsOf(b), embeddings |-> EmbsOf(b), metadatas |-> MetasOf(b)]
SearchPayload(q) == [queryEmbedding |-> q]
Without(d, k) == [x \in (DOMAIN d) \ {k} |-> d[x]]

SampleBatch == <<Rec("a", <<0>>, "m1")>>
Ops == {"add", "search", "delete", "list"}

\* The invocations: the arguments after the script name (sys.argv[1:]) and
\* what stdin holds.  A search's third argument is the text of top_k.
Input(av, sin) == [argv |-> av, stdin |-> sin]
ValidInputs ==
    {Input(<<"add", c>>, AddPayload(b)) : c \in Names, b \in Batches}
        \cup {Input(<<"search", c>>, SearchPayload(q)) :
                c \in Names, q \in Queries}
        \cup {Input(<<"search", c, k>>, SearchPayload(q)) :
                c \in Names, k \in TopKTexts, q \in Queries}
        \cup {Input(<<"delete", c, i>>, Garbage) : c \in Names, i \in Ids}
        \cup {Input(<<"list", c>>, Garbage) : c \in Names}
\* too few arguments, an unknown operation, stdin that is not JSON or lacks
\* a key, a top_k that is no integer, a delete without an id
InvalidInputs ==
    {Input(<<>>, Garbage), Input(<<"add">>, Garbage),
     Input(<<"drop", "notes">>, Garbage),
     Input(<<"add", "notes">>, Garbage),
     Input(<<"add", "docs">>, SearchPayload(<<0>>)),
     Input(<<"search", "notes">>, Garbage),
     Input(<<"search", "docs">>, AddPayload(SampleBatch)),
     Input(<<"search", "notes", "x">>, SearchPayload(<<0>>)),
     Input(<<"delete", "docs">>, Garbage)}
        \cup {Input(<<"add", "notes">>, Without(AddPayload(SampleBatch), k)) :
                k \in {"ids", "embeddings", "metadatas"}}
Inputs == ValidInputs \cup InvalidInputs

\* ---------------------------------------------------- what main() decodes
\* main() with the metadatas read leniently (data.get("metadatas")): a
\* payload without them is let through to the store
RejectsLenient(av, sin) ==
    \/ Len(av) < 2
    \/ /\ Len(av) >= 2
       /\ \/ av[1] \notin Ops
          \/ /\ av[1] = "add"
             /\ \/ ~IsJson(sin)
                \/ ~({"ids", "embeddings"} \subseteq DOMAIN sin)
          \/ /\ av[1] = "search"
             /\ \/ (Len(av) > 2 /\ ~IsIntText(av[3]))
                \/ ~IsJson(sin)
                \/ "queryEmbedding" \notin DOMAIN sin
          \/ /\ av[1] = "delete"
             /\ Len(av) < 3

\* main() ends before any store call (usage message, unknown operation, or
\* an exception from json.load, a missing key, int() or sys.argv[3])
Rejects(av, sin) ==
    \/ Len(av) < 2
    \/ /\ Len(av) >= 2
       /\ \/ av[1] \notin Ops
          \/ /\ av[1] = "add"
             /\ \/ ~IsJson(sin)
                \/ ~({"ids", "embeddings", "metadatas"} \subseteq DOMAIN sin)
          \/ /\ av[1] = "search"
             /\ \/ (Len(av) > 2 /\ ~IsIntText(av[3]))
                \/ ~IsJson(sin)
                \/ "queryEmbedding" \notin DOMAIN sin
          \/ /\ av[1] = "delete"
             /\ Len(av) < 3

\* what main() prints to stderr when it ends early
Diagnostic(av) ==
    IF Len(av) < 2 THEN "usage"
    ELSE IF av[1] \notin Ops THEN "unknown operation"
    ELSE "traceback"

\* the call main() makes for arguments and a payload it accepts
Decode(av, sin) ==
    CASE av[1] = "add" ->
            [op |-> "add", coll |-> av[2], ids |-> sin.ids,
             embeddings |-> sin.embeddings, metadatas |-> sin.metadatas]
      [] av[1] = "search" ->
            [op |-> "search", coll |-> av[2],
             query |-> sin.queryEmbedding,
             k |-> IF Len(av) > 2 THEN IntOf(av[3]) ELSE DefaultTopK]
      [] av[1] = "delete" ->
            [op |-> "delete", coll |-> av[2], id |-> av[3]]
      [] OTHER -> [op |-> "list", coll |-> av[2]]

\* ------------------------------------------------ the collection's calls
Zip(ids, embs, metas) ==
    [i \in 1..Len(ids) |-> Rec(ids[i], embs[i], metas[i])]

Dims(rows) == {Len(rows[i].emb) : i \in 1..Len(rows)}

\* col.add(ids, embeddings, metadatas): the outcomes the library can
\* produce.  It raises when the embeddings do not all have the collection's
\* dimension.  An id that is already stored is not replaced (add is not
\* upsert): it raises, or, in the releases without that check, stores a
\* second row under the same id.
ColAdd(rows, batch) ==
    IF Cardinality(Dims(rows \o batch)) > 1
    THEN {[err |-> TRUE, rows |-> rows]}
    ELSE IF \E i \in 1..Len(batch) : batch[i].id \in Range(IdsOf(rows))
    THEN {[err |-> TRUE, rows |-> rows]}
            \cup (IF Len(rows) + Len(batch) <= MaxRows
                  THEN {[err |-> FALSE, rows |-> rows \o batch]}
                  ELSE {})
    ELSE {[err |-> FALSE, rows |-> rows \o batch]}

RECURSIVE SqDist(_, _)
\* the collection's default metric: squared Euclidean distance
SqDist(q, e) ==
    IF Len(q) = 0 THEN 0
    ELSE (q[1] - e[1]) * (q[1] - e[1]) + SqDist(Tail(q), Tail(e))

\* the rankings of n of the rows a query may return: distinct rows, nearest
\* first, none nearer left out; the order among equal distances is the
\* index's own
Rankings(rows, q, n) ==
    {s \in [1..n -> 1..Len(rows)] :
        /\ \A i, j \in 1..n : i # j => s[i] # s[j]
        /\ \A i, j \in 1..n :
             i < j => SqDist(q, rows[s[i]].emb) <= SqDist(q, rows[s[j]].emb)
        /\ \A i \in 1..n : \A j \in 1..Len(rows) :
             (\A x \in 1..n : s[x] # j)
                => SqDist(q, rows[s[i]].emb) <= SqDist(q, rows[j].emb)}

\* one list per query embedding, and the bridge sends one query
QueryResult(rows, q, s) ==
    [ids |-> <<[i \in 1..Len(s) |-> rows[s[i]].id]>>,
     distances |-> <<[i \in 1..Len(s) |-> SqDist(q, rows[s[i]].emb)]>>,
     metadatas |-> <<[i \in 1..Len(s) |-> rows[s[i]].meta]>>]

QueryError == [err |-> TRUE, result |-> QueryResult(<<>>, <<>>, <<>>)]
QueryAnswers(rows, q, n) ==
    {[err |-> FALSE, result |-> QueryResult(rows, q, s)] :
        s \in Rankings(rows, q, n)}

\* col.query(query_embeddings=[q], n_results=k): the outcomes the library
\* can produce.  A collection without rows has no index: the query raises,
\* or answers with empty lists, by release; so do n_results = 0 and
\* n_results greater than the number of rows (raise, or answer with all the
\* rows).  A query of another dimension raises.
ColQuery(rows, q, k) ==
    IF Len(rows) = 0 THEN {QueryError} \cup QueryAnswers(rows, q, 0)
    ELSE IF Len(q) \notin Dims(rows) THEN {QueryError}
    ELSE IF k <= 0 THEN {QueryError} \cup QueryAnswers(rows, q, 0)
    ELSE IF k > Len(rows)
    THEN {QueryError} \cup QueryAnswers(rows, q, Len(rows))
    ELSE QueryAnswers(rows, q, k)

\* col.delete(ids=[id]): every row of that id goes; none is not an error
ColDelete(rows, id) == SelectSeq(rows, LAMBDA r : r.id # id)

\* col.get(): every row
ColGet(rows) ==
    [ids |-> IdsOf(rows), embeddings |-> EmbsOf(rows),
     metadatas |-> MetasOf(rows)]

VARIABLES
    disk,         \* the persist directory ./chroma-data
    pc,           \* per process: idle, opened, replied, crashed, rejected
    opened,       \* per process: whether get_client() has built a client
    mem,          \* per process: the client's in-memory database
    argv,         \* per process: sys.argv[1:]
    stdin,        \* per process: what stdin holds
    stdout,       \* per process: the values printed to stdout
    stderr,       \* per process: the diagnostics printed to stderr
    status,       \* per process: the exit status (-1 while undecided)
    invocations,  \* invocations started so far
    deleted,      \* history: per collection, the ids whose delete was answered
                  \* ok with no add of that id running then or started since
    treq,         \* transcript server: the last request's video_id
    tapi,         \* transcript server: what the captioning API did
    tcalled,      \* transcript server: whether the API was called
    tresp,        \* transcript server: the response
    served        \* transcript server: requests served so far

bridgeVars == <<disk, pc, opened, mem, argv, stdin, stdout, stderr, status,
                invocations, deleted>>
serverVars == <<treq, tapi, tcalled, tresp, served>>
vars == <<disk, pc, opened, mem, argv, stdin, stdout, stderr, status,
          invocations, deleted, treq, tapi, tcalled, tresp, served>>

NoResp == [status |-> 0, body |-> [none |-> TRUE]]
NoVideoId == [present |-> FALSE, value |-> ""]
NotCalled == [kind |-> "none", segs |-> <<>>]

\* a persist directory left by an earlier add of one record to "notes"
StoredDB ==
    [EmptyDB EXCEPT !["notes"] =
        [exists |-> TRUE, rows |-> <<Rec("a", <<0>>, "m1")>>]]

InitWith(db) ==
    /\ disk = db
    /\ pc = [p \in Procs |-> "idle"]
    /\ opened = [p \in Procs |-> FALSE]
    /\ mem = [p \in Procs |-> EmptyDB]
    /\ argv = [p \in Procs |-> <<>>]
    /\ stdin = [p \in Procs |-> Garbage]
    /\ stdout = [p \in Procs |-> <<>>]
    /\ stderr = [p \in Procs |-> <<>>]
    /\ status = [p \in Procs |-> -1]
    /\ invocations = 0
    /\ deleted = [c \in Names |-> {}]
    /\ treq = NoVideoId
    /\ tapi = NotCalled
    /\ tcalled = FALSE
    /\ tresp = NoResp
    /\ served = 0

\* the persist directory does not exist yet
Init == InitWith(EmptyDB)
\* the bridge is started on a directory that holds a record
InitStored == InitWith(StoredDB)

\* ----------------------------------------------------------- the bridge
Request(p) == Decode(argv[p], stdin[p])

\* main(), up to the store being open: it ends early (nothing opened), or
\* the operation's function builds the client, which reads the persist
\* directory, and gets or creates the collection.  (Process slots are
\* interchangeable: a new invocation takes the lowest free one.)
Main(p, av, sin) ==
    /\ pc[p] = "idle"
    /\ \A q \in Procs : q < p => pc[q] # "idle"
    /\ invocations < MaxInvocations
    /\ invocations' = invocations + 1
    /\ argv' = [argv EXCEPT ![p] = av]
    /\ stdin' = [stdin EXCEPT ![p] = sin]
    /\ IF Rejects(av, sin)
       THEN /\ pc' = [pc EXCEPT ![p] = "rejected"]
            /\ stderr' = [stderr EXCEPT ![p] = <<Diagnostic(av)>>]
            /\ status' = [status EXCEPT ![p] = 1]
            /\ UNCHANGED <<opened, mem>>
       ELSE /\ pc' = [pc EXCEPT ![p] = "opened"]
            /\ opened' = [opened EXCEPT ![p] = TRUE]
            /\ mem' = [mem EXCEPT ![p] = GetOrCreate(disk, av[2])]
            /\ UNCHANGED <<stderr, status>>
    /\ deleted' = IF ~Rejects(av, sin) /\ av[1] = "add"
                  THEN [deleted EXCEPT ![av[2]] = @ \ Range(sin.ids)]
                  ELSE deleted
    /\ UNCHANGED <<disk, stdout, serverVars>>

\* the collection call returned and its result is printed
Reply(p, db, value) ==
    /\ pc' = [pc EXCEPT ![p] = "replied"]
    /\ mem' = [mem EXCEPT ![p] = db]
    /\ stdout' = [stdout EXCEPT ![p] = <<value>>]
    /\ status' = [status EXCEPT ![p] = 0]
    /\ UNCHANGED stderr

\* the collection call raised: nothing catches it, the traceback goes to
\* stderr and the interpreter ends with status 1
Crash(p) ==
    /\ pc' = [pc EXCEPT ![p] = "crashed"]
    /\ stderr' = [stderr EXCEPT ![p] = <<"traceback">>]
    /\ status' = [status EXCEPT ![p] = 1]
    /\ UNCHANGED <<mem, stdout>>

\* an invocation that adds id to collection c has started and not exited
AddRunning(c, id) ==
    \E q \in Procs :
        /\ pc[q] \in {"opened", "replied", "crashed"}
        /\ Request(q).op = "add"
        /\ Request(q).coll = c
        /\ id \in Range(Request(q).ids)

Add(p) ==
    /\ pc[p] = "opened"
    /\ Request(p).op = "add"
    /\ LET r == Request(p)
           c == r.coll
           batch == Zip(r.ids, r.embeddings, r.metadatas)
       IN  \E o \in ColAdd(mem[p][c].rows, batch) :
             IF o.err
             THEN Crash(p)
             ELSE Reply(p, [mem[p] EXCEPT ![c].rows = o.rows],
                        [status |-> "ok"])
    /\ UNCHANGED <<disk, opened, argv, stdin, invocations, deleted,
                   serverVars>>

Search(p) ==
    /\ pc[p] = "opened"
    /\ Request(p).op = "search"
    /\ LET r == Request(p)
       IN  \E o \in ColQuery(mem[p][r.coll].rows, r.query, r.k) :
             IF o.err THEN Crash(p) ELSE Reply(p, mem[p], o.result)
    /\ UNCHANGED <<disk, opened, argv, stdin, invocations, deleted,
                   serverVars>>

Delete(p) ==
    /\ pc[p] = "opened"
    /\ Request(p).op = "delete"
    /\ LET r == Request(p)
           c == r.coll
       IN  /\ Reply(p, [mem[p] EXCEPT ![c].rows = ColDelete(@, r.id)],
                    [status |-> "ok"])
           /\ deleted' = IF AddRunning(c, r.id) THEN deleted
                          ELSE [deleted EXCEPT ![c] = @ \cup {r.id}]
    /\ UNCHANGED <<disk, opened, argv, stdin, invocations, serverVars>>

ListEntries(p) ==
    /\ pc[p] = "opened"
    /\ Request(p).op = "list"
    /\ Reply(p, mem[p], ColGet(mem[p][Request(p).coll].rows))
    /\ UNCHANGED <<disk, opened, argv, stdin, invocations, deleted,
                   serverVars>>

\* the interpreter exits: a client that was built is finalised, which
\* writes its whole in-memory database over the persist directory
Exit(p) ==
    /\ pc[p] \in {"replied", "crashed", "rejected"}
    /\ disk' = IF opened[p] THEN mem[p] ELSE disk
    /\ pc' = [pc EXCEPT ![p] = "idle"]
    /\ opened' = [opened EXCEPT ![p] = FALSE]
    /\ mem' = [mem EXCEPT ![p] = EmptyDB]
    /\ argv' = [argv EXCEPT ![p] = <<>>]
    /\ stdin' = [stdin EXCEPT ![p] = Garbage]
    /\ stdout' = [stdout EXCEPT ![p] = <<>>]
    /\ stderr' = [stderr EXCEPT ![p] = <<>>]
    /\ status' = [status EXCEPT ![p] = -1]
    /\ UNCHANGED <<invocations, deleted, serverVars>>

Next ==
    \E p \in Procs :
        \/ \E in \in Inputs : Main(p, in.argv, in.stdin)
        \/ Add(p)
        \/ Search(p)
        \/ Delete(p)
        \/ ListEntries(p)
        \/ Exit(p)

Spec == Init /\ [][Next]_vars
StoredSpec == InitStored /\ [][Next]_vars

\* ------------------------------------------------- the store's claims
Finished(p) == pc[p] \in {"replied", "crashed", "rejected"}
Called(p) == pc[p] \in {"replied", "crashed"}
RowsOf(db, c) == db[c].rows
StoredIds(db, c) == Range(IdsOf(db[c].rows))
UniqueIds(rows) ==
    \A i, j \in 1..Len(rows) : rows[i].id = rows[j].id => i = j
IsErrorValue(v) == "error" \in DOMAIN v
IdRank(i) == IF i = "a" THEN 1 ELSE 2

\* C1: every invocation writes exactly one response value to stdout, a
\* success payload or a structured error; a failed invocation (too few
\* arguments, unknown operation, bad payload, store error) ends with a
\* non-zero status, its response is the structured error, and its
\* diagnostics are on stderr only: nothing ends as an unhandled crash.
C1_OneResponsePerInvocation ==
    \A p \in Procs :
        Finished(p) =>
            /\ Len(stdout[p]) = 1
            /\ status[p] = 0 => ~IsErrorValue(stdout[p][1])
            /\ pc[p] # "replied"
                 => /\ status[p] # 0
                    /\ IsErrorValue(stdout[p][1])
                    /\ stderr[p] # <<"traceback">>

\* C2: a mutation that has reported success is already durable: once add or
\* delete has printed {status: "ok"}, the persist directory holds the
\* collection with the record set the invocation holds in memory, so a
\* restart at that point lists the same records.
C2_DurableWhenAcknowledged ==
    \A p \in Procs :
        (pc[p] = "replied" /\ Request(p).op \in {"add", "delete"})
            => /\ disk[Request(p).coll].exists
               /\ Range(RowsOf(disk, Request(p).coll))
                    = Range(RowsOf(mem[p], Request(p).coll))

\* the dimension of a collection, fixed by its first add (by this batch's
\* first embedding when it holds no rows yet)
DimensionFor(rows, embeddings) ==
    IF Len(rows) > 0 THEN Len(rows[1].emb) ELSE Len(embeddings[1])
MismatchedAdd(p) ==
    /\ Request(p).op = "add"
    /\ \E i \in 1..Len(Request(p).embeddings) :
         Len(Request(p).embeddings[i])
            # DimensionFor(RowsOf(mem[p], Request(p).coll),
                           Request(p).embeddings)

C3Step(p) ==
    (pc[p] = "opened" /\ pc'[p] # "opened" /\ MismatchedAdd(p))
        => /\ RowsOf(mem'[p], Request(p).coll)
                = RowsOf(mem[p], Request(p).coll)
           /\ Len(stdout'[p]) = 1
           /\ IsErrorValue(stdout'[p][1])

\* C3: all stored embeddings of a collection have one length, and an add in
\* which any embedding's length differs from the collection's dimension
\* returns DimensionMismatch and stores no record of the batch.
C3_DimensionAllOrNothing ==
    [][/\ \A c \in Names :
            /\ Cardinality(Dims(RowsOf(disk', c))) <= 1
            /\ \A p \in Procs : Cardinality(Dims(RowsOf(mem'[p], c))) <= 1
       /\ \A p \in Procs : C3Step(p)]_vars

\* C4: add is an upsert keyed by id: an add whose embeddings fit the
\* collection's dimension succeeds whether or not its ids are present, and
\* afterwards every id occurs once in the collection, the batch's ids with
\* the batch's embedding and metadata.
C4_AddIsUpsert ==
    /\ \A c \in Names : UniqueIds(RowsOf(disk, c))
    /\ \A p \in Procs :
         (Called(p) /\ Request(p).op = "add"
                    /\ Cardinality(Dims(RowsOf(mem[p], Request(p).coll))
                                     \cup {Len(Request(p).embeddings[i]) :
                                             i \in 1..Len(Request(p).ids)}) <= 1)
            => /\ pc[p] = "replied"
               /\ UniqueIds(RowsOf(mem[p], Request(p).coll))
               /\ Range(Zip(Request(p).ids, Request(p).embeddings,
                            Request(p).metadatas))
                    \subseteq Range(RowsOf(mem[p], Request(p).coll))

\* the lists of a query's result for its one query embedding
ResultIds(v) == v.ids[1]
ResultDistances(v) == v.distances[1]
ResultMetadatas(v) == v.metadatas[1]

\* C5: on a collection of N >= 1 records, a search with a query of the
\* collection's dimension and top_k >= 0 succeeds and returns min(top_k, N)
\* results as aligned lists, by non-decreasing distance, equal distances by
\* ascending id, and no record left out is nearer than one returned.
C5_SearchReturnsNearest ==
    \A p \in Procs :
        (/\ Called(p)
         /\ Request(p).op = "search"
         /\ Request(p).k >= 0
         /\ Len(RowsOf(mem[p], Request(p).coll)) >= 1
         /\ Len(Request(p).query) \in Dims(RowsOf(mem[p], Request(p).coll)))
        => /\ pc[p] = "replied"
           /\ LET rows == RowsOf(mem[p], Request(p).coll)
                  q == Request(p).query
                  ids == ResultIds(stdout[p][1])
                  ds == ResultDistances(stdout[p][1])
                  n == Len(ids)
              IN  /\ n = Min(Request(p).k, Len(rows))
                  /\ Len(ds) = n
                  /\ Len(ResultMetadatas(stdout[p][1])) = n
                  /\ \A i \in 1..n : \E j \in 1..Len(rows) :
                       rows[j].id = ids[i] /\ ds[i] = SqDist(q, rows[j].emb)
                  /\ \A i, j \in 1..n :
                       i < j => \/ ds[i] < ds[j]
                                \/ ds[i] = ds[j] /\ IdRank(ids[i]) < IdRank(ids[j])
                  /\ \A i \in 1..n : \A j \in 1..Len(rows) :
                       rows[j].id \notin Range(ids)
                          => ds[i] <= SqDist(q, rows[j].emb)

C6Step(p) ==
    /\ (pc[p] = "idle" /\ pc'[p] = "opened" /\ argv'[p][1] = "list")
         => StoredIds(mem'[p], argv'[p][2]) \cap deleted[argv'[p][2]] = {}
    /\ (pc[p] = "opened" /\ pc'[p] # "opened" /\ Request(p).op = "delete")
         => /\ pc'[p] = "replied"
            /\ stdout'[p] = <<[status |-> "ok"]>>
            /\ RowsOf(mem'[p], Request(p).coll)
                 = SelectSeq(RowsOf(mem[p], Request(p).coll),
                             LAMBDA r : r.id # Request(p).id)
            /\ \A c \in Names \ {Request(p).coll} :
                 RowsOf(mem'[p], c) = RowsOf(mem[p], c)

\* C6: delete of any id, present or not, answers {status: "ok"}, removes that
\* id and leaves every other record; and once a delete(id) has been answered
\* ok, a list started afterwards does not hold id, until id is added again.
C6_DeleteListConsistency == [][\A p \in Procs : C6Step(p)]_vars

\* the ids a finished invocation was asked to remove from its collection
Removes(p, c) ==
    IF Request(p).op = "delete" /\ Request(p).coll = c
    THEN {Request(p).id} ELSE {}

C7Step(p) ==
    (/\ pc[p] = "replied"
     /\ pc'[p] = "idle"
     /\ Request(p).op \in {"add", "delete"})
        => \A c \in Names :
             StoredIds(disk, c) \ Removes(p, c) \subseteq StoredIds(disk', c)

\* C7: writes to a collection's storage exclude each other, so no update is
\* lost: the durable write of a successful add or delete leaves in storage
\* every record that another invocation's write has put there (except the
\* id it was asked to delete).
C7_NoLostUpdate == [][\A p \in Procs : C7Step(p)]_vars

Fresh(p, c) == ~disk[c].exists /\ Len(RowsOf(mem[p], c)) = 0
Reader(p) == Request(p).op \in {"search", "list"}

C10Step(p) ==
    /\ (pc[p] = "opened" /\ pc'[p] # "opened")
         => /\ mem'[p][Request(p).coll].exists
            /\ (Fresh(p, Request(p).coll) /\ Request(p).op # "add")
                 => pc'[p] = "replied"
            /\ (Fresh(p, Request(p).coll) /\ Request(p).op = "search")
                 => ResultIds(stdout'[p][1]) = <<>>
            /\ (Fresh(p, Request(p).coll) /\ Request(p).op = "list")
                 => stdout'[p][1].ids = <<>>
            /\ Reader(p)
                 => \A c \in Names : RowsOf(mem'[p], c) = RowsOf(mem[p], c)
            /\ \A c \in Names \ {Request(p).coll} :
                 RowsOf(mem'[p], c) = RowsOf(mem[p], c)
    /\ (Called(p) /\ pc'[p] = "idle")
         => /\ disk'[Request(p).coll].exists
            /\ Reader(p)
                 => \A c \in Names : RowsOf(disk', c) = RowsOf(disk, c)
            /\ \A c \in Names \ {Request(p).coll} :
                 RowsOf(disk', c) = RowsOf(disk, c)

\* C10: every operation on a collection never referenced before succeeds
\* and creates it (search and list answering with empty lists); a collection
\* once created is never removed; search and list change no record, and no
\* operation changes the records of a collection other than the one named.
C10_GetOrCreate ==
    [][/\ \A c \in Names : disk[c].exists => disk'[c].exists
       /\ \A p \in Procs : C10Step(p)]_vars

\* ------------------------------------------------- the transcript server
\* Texts are sequences of characters.
Texts == {<<>>, <<"y">>, <<"h", "i">>}
SegmentLists ==
    UNION {[1..n -> {[text |-> t] : t \in Texts}] : n \in 0..MaxSegments}
\* request.args.get('video_id'): absent, empty or an identifier
VideoIds ==
    {NoVideoId, [present |-> TRUE, value |-> ""],
     [present |-> TRUE, value |-> "v1"], [present |-> TRUE, value |-> "v2"]}
\* YouTubeTranscriptApi.get_transcript: the segments, or one of the two
\* caption exceptions, or any other exception
ApiOutcomes ==
    {[kind |-> "ok", segs |-> sl] : sl \in SegmentLists}
        \cup {[kind |-> k, segs |-> <<>>] :
                k \in {"disabled", "notfound", "error"}}

RECURSIVE JoinTextsNoSeparator(_)
\* the join with the separator forgotten: ''.join(...)
JoinTextsNoSeparator(segs) ==
    IF Len(segs) = 0 THEN <<>>
    ELSE segs[1].text \o JoinTextsNoSeparator(Tail(segs))

RECURSIVE JoinTexts(_)
\* ' '.join([seg['text'] for seg in transcript])
JoinTexts(segs) ==
    IF Len(segs) = 0 THEN <<>>
    ELSE IF Len(segs) = 1 THEN segs[1].text
    ELSE segs[1].text \o <<" ">> \o JoinTexts(Tail(segs))

Json(st, b) == [status |-> st, body |-> b]

\* the try block of get_transcript for a video_id that is given
Forward(outcome) ==
    CASE outcome.kind = "ok" ->
            Json(200, [transcript |-> JoinTexts(outcome.segs)])
      [] outcome.kind = "disabled" ->
            Json(404, [error |-> "Transcripts are disabled for this video."])
      [] outcome.kind = "notfound" ->
            Json(404, [error |-> "No transcript found for this video."])
      [] OTHER -> Json(500, [error |-> "exception text"])

\* GET /transcript
GetTranscript(vid, outcome) ==
    /\ served < MaxRequests
    /\ served' = served + 1
    /\ treq' = vid
    /\ IF ~vid.present \/ vid.value = ""
       THEN /\ tresp' = Json(400, [error |-> "Missing video_id parameter"])
            /\ tcalled' = FALSE
            /\ tapi' = NotCalled
       ELSE /\ tcalled' = TRUE
            /\ tapi' = outcome
            /\ tresp' = Forward(outcome)
    /\ UNCHANGED bridgeVars

ServerNext ==
    \E vid \in VideoIds : \E outcome \in ApiOutcomes : GetTranscript(vid, outcome)

ServerSpec == Init /\ [][ServerNext]_vars

\* ------------------------------------------------------------------- C8
RECURSIVE OffsetOf(_, _)
\* where segment i's text starts in the joined text (0-based)
OffsetOf(segs, i) ==
    IF i = 1 THEN 0 ELSE OffsetOf(segs, i - 1) + Len(segs[i - 1].text) + 1

\* t is the segments' texts in their order, one space between neighbours
IsJoined(t, segs) ==
    /\ Len(t) = IF Len(segs) = 0 THEN 0
                ELSE OffsetOf(segs, Len(segs)) + Len(segs[Len(segs)].text)
    /\ \A i \in 1..Len(segs) :
         /\ SubSeq(t, OffsetOf(segs, i) + 1,
                   OffsetOf(segs, i) + Len(segs[i].text)) = segs[i].text
         /\ i < Len(segs)
              => t[OffsetOf(segs, i) + Len(segs[i].text) + 1] = " "

\* C8: every GET /transcript is answered with 400 and {error} when video_id
\* is missing or empty (the captioning API is then not called), with 404 and
\* {error} when the API reports captions disabled or no transcript found,
\* with 500 and {error} on any other failure of the call, and otherwise with
\* a success response {transcript} holding the segments' texts in order
\* joined by single spaces; no other status is produced.
C8_TranscriptResponses ==
    served > 0 =>
        /\ tresp.status \in {200, 400, 404, 500}
        /\ (~treq.present \/ treq.value = "")
             => /\ tresp.status = 400
                /\ DOMAIN tresp.body = {"error"}
                /\ ~tcalled
        /\ (treq.present /\ treq.value # "")
             => /\ tcalled
                /\ tapi.kind \in {"disabled", "notfound"}
                     => tresp.status = 404 /\ DOMAIN tresp.body = {"error"}
                /\ tapi.kind = "error"
                     => tresp.status = 500 /\ DOMAIN tresp.body = {"error"}
                /\ tapi.kind = "ok"
                     => /\ tresp.status = 200
                        /\ DOMAIN tresp.body = {"transcript"}
                        /\ IsJoined(tresp.body.transcript, tapi.segs)

\* a transcript of three segments, an empty one among them, was served
C8_Witness ==
    /\ served > 0
    /\ tresp.status = 200
    /\ tapi.segs = <<[text |-> <<"h", "i">>], [text |-> <<>>], [text |-> <<"y">>]>>
    /\ tresp.body.transcript = <<"h", "i", " ", " ", "y">>

\* ------------------------------------------------------------------- C9
\* the inputs the claim calls InvalidInput
C9Invalid(av, sin) ==
    \/ Len(av) < 2
    \/ /\ Len(av) >= 2
       /\ \/ av[1] \notin {"add", "search", "delete", "list"}
          \/ av[1] = "add" /\ "ids" \notin DOMAIN sin
          \/ av[1] = "add" /\ "embeddings" \notin DOMAIN sin
          \/ av[1] = "add" /\ "metadatas" \notin DOMAIN sin
          \/ av[1] = "search" /\ "queryEmbedding" \notin DOMAIN sin
          \/ av[1] = "delete" /\ Len(av) < 3

C9Step(p) ==
    /\ (pc[p] = "idle" /\ pc'[p] # "idle" /\ C9Invalid(argv'[p], stdin'[p]))
         => /\ pc'[p] = "rejected"
            /\ ~opened'[p]
            /\ status'[p] # 0
            /\ disk' = disk
            /\ mem' = mem
    /\ (pc[p] # "idle" /\ pc'[p] = "idle" /\ C9Invalid(argv[p], stdin[p]))
         => /\ disk' = disk
            /\ \A q \in Procs \ {p} : mem'[q] = mem[q]

\* C9: an invocation with too few arguments, an unknown operation, an add
\* payload lacking ids, embeddings or metadatas, a search payload lacking
\* queryEmbedding, or a delete without an id opens no store and changes
\* neither the persist directory nor any running invocation's database, from
\* its start to its exit: no collection is created, no record changes.
C9_InvalidInputNeverMutates == [][\A p \in Procs : C9Step(p)]_vars

\* an add whose payload lacks metadatas was rejected while the store held a
\* record
C9_Witness ==
    \E p \in Procs :
        /\ pc[p] = "rejected"
        /\ argv[p] = <<"add", "notes">>
        /\ IsJson(stdin[p])
        /\ "metadatas" \notin DOMAIN stdin[p]
        /\ disk["notes"].rows # <<>>
        /\ ~disk["docs"].exists

====
